---- MODULE Spec2Model ----
(***************************************************************************)
(* Paperwrite.RocketRouter: the regex router that replaces flask's         *)
(* routing.  Strings are sequences of one-character strings, a regular     *)
(* expression is the sequence of the tokens of its source, and the route   *)
(* table and the method table are insertion-ordered dictionaries, as       *)
(* Python's dict is.                                                       *)
(***************************************************************************)
EXTENDS Integers, Sequences, FiniteSets, TLC

VARIABLES univ, routes, pre, log, last, workers, instances, constructed, store

vars == <<univ, routes, pre, log, last, workers, instances, constructed, store>>

(* ------------------------------ bounds -------------------------------- *)

\* Mount calls per behaviour.
MaxMounts == 2

\* Constructor runs of Singleton classes per behaviour.
MaxConstructed == 3

\* The requests that the server receives in one behaviour.
MaxRequests == 3

(* ----------------------------- characters ----------------------------- *)

LowerSeq ==
  <<"a", "b", "c", "d", "e", "f", "g", "h", "i", "j", "k", "l", "m",
    "n", "o", "p", "q", "r", "s", "t", "u", "v", "w", "x", "y", "z">>

UpperSeq ==
  <<"A", "B", "C", "D", "E", "F", "G", "H", "I", "J", "K", "L", "M",
    "N", "O", "P", "Q", "R", "S", "T", "U", "V", "W", "X", "Y", "Z">>

DigitSeq == <<"0", "1", "2", "3", "4", "5", "6", "7", "8", "9">>

Range(s) == {s[i] : i \in DOMAIN s}

Lower == Range(LowerSeq)

Upper == Range(UpperSeq)

Digit == Range(DigitSeq)

\* str.upper() on one character.
UpperChar(c) ==
  IF c \in Lower
  THEN UpperSeq[CHOOSE i \in DOMAIN LowerSeq : LowerSeq[i] = c]
  ELSE c

\* str.lower() on one character.
LowerChar(c) ==
  IF c \in Upper
  THEN LowerSeq[CHOOSE i \in DOMAIN UpperSeq : UpperSeq[i] = c]
  ELSE c

StrUpper(s) == [i \in DOMAIN s |-> UpperChar(s[i])]

StrLower(s) == [i \in DOMAIN s |-> LowerChar(s[i])]

DigitVal(c) == (CHOOSE i \in DOMAIN DigitSeq : DigitSeq[i] = c) - 1

(* ------------------------- Python str and dict ------------------------ *)

\* s.split(sep) for a one-element separator: never empty, keeps empty parts.
RECURSIVE Split(_, _)
Split(s, sep) ==
  IF \A i \in DOMAIN s : s[i] # sep
  THEN <<s>>
  ELSE LET i == CHOOSE j \in DOMAIN s :
                  s[j] = sep /\ \A k \in 1..(j - 1) : s[k] # sep
       IN  <<SubSeq(s, 1, i - 1)>> \o Split(SubSeq(s, i + 1, Len(s)), sep)

\* sep.join(parts)
RECURSIVE Join(_, _)
Join(parts, sep) ==
  IF parts = <<>> THEN <<>>
  ELSE IF Len(parts) = 1 THEN parts[1]
  ELSE parts[1] \o sep \o Join(Tail(parts), sep)

\* list(filter(("").__ne__, parts))
FilterNonEmpty(parts) == SelectSeq(parts, LAMBDA m : m # <<>>)

\* A dict is the sequence of its items [k, v] in insertion order.
DictHas(d, key) == \E i \in DOMAIN d : d[i].k = key

\* d[key], for a key that is present.
DictVal(d, key) == d[CHOOSE i \in DOMAIN d : d[i].k = key].v

\* d[key] = val: a present key keeps its position.
DictSet(d, key, val) ==
  IF DictHas(d, key)
  THEN [i \in DOMAIN d |->
          IF d[i].k = key THEN [k |-> key, v |-> val] ELSE d[i]]
  ELSE Append(d, [k |-> key, v |-> val])

DictKeys(d) == [i \in DOMAIN d |-> d[i].k]

DictValues(d) == [i \in DOMAIN d |-> d[i].v]

(* ------------------------ regular expressions ------------------------- *)

\* One token of a regex source: a character class with its quantifier
\* {lo,hi} (unb: no upper limit), "." (any), or the alternation bar.
Atom(cls, lo, hi, unb) ==
  [bar |-> FALSE, any |-> FALSE, cls |-> cls, lo |-> lo, hi |-> hi, unb |-> unb]

One(cls) == Atom(cls, 1, 1, FALSE)

Opt(cls) == Atom(cls, 0, 1, FALSE)

Plus(cls) == Atom(cls, 1, 1, TRUE)

Star(cls) == Atom(cls, 0, 0, TRUE)

Times(cls, n) == Atom(cls, n, n, FALSE)

AnyTok ==
  [bar |-> FALSE, any |-> TRUE, cls |-> {}, lo |-> 1, hi |-> 1, unb |-> FALSE]

BarTok ==
  [bar |-> TRUE, any |-> FALSE, cls |-> {}, lo |-> 0, hi |-> 0, unb |-> FALSE]

\* How the regex engine reads a character of a literal segment: the template
\* is not escaped, so "." is the wildcard; letters, digits, "-", "_" and "/"
\* stand for themselves.
LitTok(c) == IF c = "." THEN AnyTok ELSE One({c})

LitRegex(s) == [i \in DOMAIN s |-> LitTok(s[i])]

TokHas(t, c) == t.any \/ c \in t.cls

\* The alternation binds loosest: the source is read as alt1|alt2|...
Alternatives(re) == Split(re, BarTok)

Min(a, b) == IF a < b THEN a ELSE b

\* Tokens alt[i..] match some prefix of s[p..].
RECURSIVE MatchAt(_, _, _, _)
MatchAt(alt, i, s, p) ==
  IF i > Len(alt) THEN TRUE
  ELSE LET t    == alt[i]
           room == Len(s) - p + 1
           maxn == IF t.unb THEN room ELSE Min(t.hi, room)
       IN  \E n \in t.lo..maxn :
             /\ \A j \in 0..(n - 1) : TokHas(t, s[p + j])
             /\ MatchAt(alt, i + 1, s, p + n)

\* regex.match(route) is not None: a match at the start of route, which
\* need not reach its end.
ReMatch(re, route) ==
  \E a \in Range(Alternatives(re)) : MatchAt(a, 1, route, 1)

(* ----------------------- RocketPathVariableTypes ---------------------- *)

Hex == {"a", "b", "c", "d", "e", "f"} \cup Digit

Sign == {"-", "+"}

StrClass ==
  {"-"} \cup Lower \cup Upper \cup Digit
        \cup {"@", ":", "%", ".", "_", "+", "~", "#", "="}

UUID4 ==
  [t |-> "str",
   regex |-> <<Times(Hex, 8), Opt({"-"}), Times(Hex, 4), Opt({"-"}),
               One({"4"}), Times(Hex, 3), Opt({"-"}),
               One({"8", "9", "a", "b"}), Times(Hex, 3), Opt({"-"}),
               Times(Hex, 12)>>]

STR == [t |-> "str", regex |-> <<Plus(StrClass)>>]

INT64 == [t |-> "int", regex |-> <<Opt(Sign), Plus(Digit)>>]

FLOAT64 ==
  [t |-> "float",
   regex |-> <<Opt(Sign), Star(Digit), Opt({"."}), Plus(Digit),
               BarTok, Plus(Digit)>>]

\* The lookup of the tag as it is written.
FromStr_CaseSensitive(t) ==
  IF t = <<"U", "U", "I", "D", "4">> THEN UUID4
  ELSE IF t = <<"S", "T", "R">> THEN STR
  ELSE IF t = <<"I", "N", "T", "6", "4">> THEN INT64
  ELSE IF t = <<"F", "L", "O", "A", "T", "6", "4">> THEN FLOAT64
  ELSE STR

\* RocketPathVariableTypes.__dict__.get(str(t).upper(), STR)
FromStr(t) ==
  LET u == StrUpper(t)
  IN  IF u = <<"U", "U", "I", "D", "4">> THEN UUID4
      ELSE IF u = <<"S", "T", "R">> THEN STR
      ELSE IF u = <<"I", "N", "T", "6", "4">> THEN INT64
      ELSE IF u = <<"F", "L", "O", "A", "T", "6", "4">> THEN FLOAT64
      ELSE STR

(* -------------------------- native conversions ------------------------ *)

\* s.strip() for the blank.
RECURSIVE Strip(_)
Strip(s) ==
  IF s # <<>> /\ s[1] = " " THEN Strip(Tail(s))
  ELSE IF s # <<>> /\ s[Len(s)] = " " THEN Strip(SubSeq(s, 1, Len(s) - 1))
  ELSE s

\* Digits, with single underscores allowed between them.
DigitRun(s) ==
  /\ s # <<>>
  /\ s[1] \in Digit
  /\ s[Len(s)] \in Digit
  /\ \A i \in DOMAIN s : s[i] \in Digit \cup {"_"}
  /\ \A i \in 1..(Len(s) - 1) : ~(s[i] = "_" /\ s[i + 1] = "_")

Unsigned(s) == IF s # <<>> /\ s[1] \in Sign THEN Tail(s) ELSE s

Negative(s) == s # <<>> /\ s[1] = "-"

RECURSIVE DecVal(_)
DecVal(s) ==
  IF s = <<>> THEN 0
  ELSE IF s[Len(s)] = "_" THEN DecVal(SubSeq(s, 1, Len(s) - 1))
  ELSE 10 * DecVal(SubSeq(s, 1, Len(s) - 1)) + DigitVal(s[Len(s)])

Raise(exc) == [ok |-> FALSE, exc |-> exc]

Value(v) == [ok |-> TRUE, val |-> v]

\* The digits of a digit run: the "_" between digits are not part of it.
DigitsOf(s) == SelectSeq(s, LAMBDA c : c # "_")

RECURSIVE NoLeadingZeros(_)
NoLeadingZeros(d) ==
  IF Len(d) > 1 /\ d[1] = "0" THEN NoLeadingZeros(Tail(d)) ELSE d

\* A Python int, which has no width: its sign and its decimal digits
\* without leading zeros.
IntValue(neg, d) == [t |-> "int", neg |-> neg /\ d # <<"0">>, digits |-> d]

\* int(seg)
IntOf(seg) ==
  IF DigitRun(Unsigned(Strip(seg)))
  THEN Value(IntValue(Negative(Strip(seg)),
                      NoLeadingZeros(DigitsOf(Unsigned(Strip(seg))))))
  ELSE Raise("ValueError")

\* The decimal mantissa and exponent of a float literal.
FloatParts(b) ==
  LET m   == Split(b, "e")
      mp  == Split(m[1], ".")
      ip  == mp[1]
      fp  == IF Len(mp) = 2 THEN mp[2] ELSE <<>>
      ex  == IF Len(m) = 2 THEN m[2] ELSE <<>>
  IN  [wf |-> /\ Len(m) <= 2
              /\ Len(mp) <= 2
              /\ (ip = <<>> \/ DigitRun(ip))
              /\ (fp = <<>> \/ DigitRun(fp))
              /\ (ip # <<>> \/ fp # <<>>)
              /\ (Len(m) = 2 => DigitRun(Unsigned(ex))),
       ip |-> ip, fp |-> fp, ex |-> ex]

\* float(seg)
FloatOf(seg) ==
  LET l == StrLower(Strip(seg))
      b == Unsigned(l)
      p == FloatParts(b)
  IN  IF b \in {<<"i", "n", "f">>, <<"n", "a", "n">>,
                <<"i", "n", "f", "i", "n", "i", "t", "y">>}
      THEN Value([t |-> "float", neg |-> Negative(l), special |-> b])
      ELSE IF p.wf
      THEN Value([t |-> "float", neg |-> Negative(l),
                  int |-> DecVal(p.ip), frac |-> p.fp, exp |-> p.ex])
      ELSE Raise("ValueError")

\* var.Class(seg)
Convert(class, seg) ==
  IF class = "int" THEN IntOf(seg)
  ELSE IF class = "float" THEN FloatOf(seg)
  ELSE Value([t |-> "str", v |-> seg])

(* --------------------------- HttpApiMethods --------------------------- *)

POSSIBLE_METHODS == <<"GET", "POST", "PUT", "DELETE", "PATCH">>

NotSupportedError(method) == [exc |-> "NotSupportedError", method |-> method]

\* Register without the check against POSSIBLE_METHODS.
RECURSIVE Register_NoCheck(_, _, _)
Register_NoCheck(fl, acceptedHttpMethods, functionPtr) ==
  IF acceptedHttpMethods = <<>>
  THEN [FunctionsLookup |-> fl, raised |-> <<>>]
  ELSE Register_NoCheck(DictSet(fl, Head(acceptedHttpMethods), functionPtr),
                        Tail(acceptedHttpMethods), functionPtr)

\* Register that leaves a method alone once it has a handler.
RECURSIVE Register_KeepFirst(_, _, _)
Register_KeepFirst(fl, acceptedHttpMethods, functionPtr) ==
  IF acceptedHttpMethods = <<>>
  THEN [FunctionsLookup |-> fl, raised |-> <<>>]
  ELSE LET method == Head(acceptedHttpMethods)
       IN  IF method \in Range(POSSIBLE_METHODS)
           THEN Register_KeepFirst(
                  IF DictHas(fl, method) THEN fl
                  ELSE DictSet(fl, method, functionPtr),
                  Tail(acceptedHttpMethods), functionPtr)
           ELSE [FunctionsLookup |-> fl,
                 raised |-> <<NotSupportedError(method)>>]

\* HttpApiMethods.Register on the FunctionsLookup fl: the methods are taken
\* in order, and the first unsupported one raises, leaving the earlier ones
\* registered.  raised is <<>> or holds the exception.
RECURSIVE Register(_, _, _)
Register(fl, acceptedHttpMethods, functionPtr) ==
  IF acceptedHttpMethods = <<>>
  THEN [FunctionsLookup |-> fl, raised |-> <<>>]
  ELSE LET method == Head(acceptedHttpMethods)
       IN  IF method \in Range(POSSIBLE_METHODS)
           THEN Register(DictSet(fl, method, functionPtr),
                         Tail(acceptedHttpMethods), functionPtr)
           ELSE [FunctionsLookup |-> fl,
                 raised |-> <<NotSupportedError(method)>>]

\* HttpApiMethods.Get: <<>> is None.
Get(fl, httpFunctionType) ==
  IF DictHas(fl, httpFunctionType)
  THEN <<DictVal(fl, httpFunctionType)>>
  ELSE <<>>

(* ----------------------------- RocketRouter --------------------------- *)

\* modules of a template that keep the empty strings of the split.
Modules_KeepEmpty(templatedPathStr) == Split(templatedPathStr, "/")

\* modules of a template: split on "/", empty ones dropped.
Modules(templatedPathStr) == FilterNonEmpty(Split(templatedPathStr, "/"))

\* mod.startswith("{")
IsVariable(mod) == mod # <<>> /\ mod[1] = "{"

\* mod[1:-1].split(":")
VarParts(mod) == Split(SubSeq(mod, 2, Len(mod) - 1), ":")

\* varname, vartype = tuple(...) needs exactly two parts.
Unpacks(modules) ==
  \A i \in DOMAIN modules :
    IsVariable(modules[i]) => Len(VarParts(modules[i])) = 2

\* The variables list: Index counts the modules from 0.
RECURSIVE Variables(_, _)
Variables(modules, i) ==
  IF i > Len(modules) THEN <<>>
  ELSE IF IsVariable(modules[i])
  THEN <<[Index |-> i - 1,
          Class |-> FromStr(VarParts(modules[i])[2]).t,
          Name  |-> VarParts(modules[i])[1]]>> \o Variables(modules, i + 1)
  ELSE Variables(modules, i + 1)

\* The modules with every variable replaced by the regex of its type.
RegexModules(modules) ==
  [i \in DOMAIN modules |->
     IF IsVariable(modules[i])
     THEN FromStr(VarParts(modules[i])[2]).regex
     ELSE LitRegex(modules[i])]

\* re.compile("/".join(modules)): no anchor is added.
Compile(modules) == Join(RegexModules(modules), <<One({"/"})>>)

RocketTemplatedPath(templatedPathStr, templatedPathVariables, fl) ==
  [TemplatedPathStr       |-> templatedPathStr,
   TemplatedPathVariables |-> templatedPathVariables,
   HttpMethodsMap         |-> fl]

\* Mount that stores a route per call, without looking the regex up.
MountCompiled_NoLookup(rt, regex, templatedPathStr, variables, functionPtr, acceptedHttpMethods) ==
  LET r == Register(<<>>, acceptedHttpMethods, functionPtr)
  IN  IF r.raised # <<>>
      THEN [routes |-> rt, raised |-> r.raised]
      ELSE [routes |->
              Append(rt, [k |-> regex,
                          v |-> RocketTemplatedPath(templatedPathStr,
                                                    variables,
                                                    r.FunctionsLookup)]),
            raised |-> <<>>]

\* Mount that assigns a new RocketTemplatedPath to the regex on every call.
MountCompiled_Replace(rt, regex, templatedPathStr, variables, functionPtr, acceptedHttpMethods) ==
  LET r == Register(<<>>, acceptedHttpMethods, functionPtr)
  IN  IF r.raised # <<>>
      THEN [routes |-> rt, raised |-> r.raised]
      ELSE [routes |->
              DictSet(rt, regex,
                      RocketTemplatedPath(templatedPathStr, variables,
                                          r.FunctionsLookup)),
            raised |-> <<>>]

\* The registration of Mount, once the template is compiled.  A new route
\* whose constructor raises is never stored; an existing route keeps what
\* Register did before it raised.
MountCompiled(rt, regex, templatedPathStr, variables, functionPtr, acceptedHttpMethods) ==
  IF ~DictHas(rt, regex)
  THEN LET r == Register(<<>>, acceptedHttpMethods, functionPtr)
       IN  IF r.raised # <<>>
           THEN [routes |-> rt, raised |-> r.raised]
           ELSE [routes |->
                   DictSet(rt, regex,
                           RocketTemplatedPath(templatedPathStr, variables,
                                               r.FunctionsLookup)),
                 raised |-> <<>>]
  ELSE LET old == DictVal(rt, regex)
           r   == Register(old.HttpMethodsMap, acceptedHttpMethods,
                           functionPtr)
       IN  [routes |->
              DictSet(rt, regex,
                      [old EXCEPT !.HttpMethodsMap = r.FunctionsLookup]),
            raised |-> r.raised]

\* Mount, from the modules of the template on.
MountModules(rt, modules, templatedPathStr, functionPtr, acceptedHttpMethods) ==
  IF ~Unpacks(modules)
  THEN [routes |-> rt, raised |-> <<[exc |-> "ValueError"]>>]
  ELSE MountCompiled(rt, Compile(modules), templatedPathStr,
                     Variables(modules, 1), functionPtr, acceptedHttpMethods)

\* RocketRouter.Mount on the route table rt: the new table and, in raised,
\* the exception that left the call, if any.
Mount(rt, templatedPathStr, functionPtr, acceptedHttpMethods) ==
  MountModules(rt, Modules(templatedPathStr), templatedPathStr, functionPtr,
               acceptedHttpMethods)

MULTIPLE_CHOICES == 300

NOT_FOUND == 404

METHOD_NOT_ALLOWED == 405

Error(msg, status) == [kind |-> "err", status |-> status, msg |-> msg]

\* The templates whose regex matches route, in table order.
Matching(rt, route) ==
  DictValues(SelectSeq(rt, LAMBDA item : ReMatch(item.k, route)))

\* variables[var.Name] = c, for a conversion c that did not raise.
Bind(variables, var, c) ==
  IF c.ok THEN Value(DictSet(variables, var.Name, c.val)) ELSE c

\* variables[var.Name] = var.Class(modules[var.Index])
MapVariable(var, modules, variables) ==
  IF var.Index + 1 > Len(modules)
  THEN Raise("IndexError")
  ELSE Bind(variables, var, Convert(var.Class, modules[var.Index + 1]))

\* The loop over template.TemplatedPathVariables; the first failure raises.
\* acc is the dictionary so far, or the exception.
RECURSIVE MapVariables(_, _, _)
MapVariables(tvars, modules, acc) ==
  IF tvars = <<>> \/ ~acc.ok THEN acc
  ELSE MapVariables(Tail(tvars), modules,
                    MapVariable(Head(tvars), modules, acc.val))

\* Match answering 404 whenever the match is not unique.
NoUniqueRoute_NotFound(templates) ==
  Error("no matching routes could be found", NOT_FOUND)

\* len(templates) != 1: too many matches, or none.
NoUniqueRoute(templates) ==
  IF Len(templates) > 1
  THEN Error("to many matched routes found", MULTIPLE_CHOICES)
  ELSE Error("no matching routes could be found", NOT_FOUND)

\* The end of Match: mapped holds the converted variables or the exception
\* of the conversion, functionPtr the handler of the method or None (<<>>).
Resolved(mapped, functionPtr) ==
  IF ~mapped.ok
  THEN [kind |-> "raise", exc |-> mapped.exc]
  ELSE IF functionPtr = <<>>
  THEN Error("HTTP method is not allowed on this route", METHOD_NOT_ALLOWED)
  ELSE [kind |-> "ok", Vars |-> mapped.val, Function |-> functionPtr[1]]

\* The one matching template: the variables are converted first, then the
\* method is looked up.
Resolve(template, modules, httpApiFunc) ==
  Resolved(MapVariables(template.TemplatedPathVariables, modules,
                        Value(<<>>)),
           Get(template.HttpMethodsMap, httpApiFunc))

\* Match taking the first matching template when several match.
MatchTemplates_FirstWins(templates, modules, httpApiFunc) ==
  IF templates = <<>>
  THEN NoUniqueRoute(templates)
  ELSE Resolve(templates[1], modules, httpApiFunc)

\* Match, once the matching templates are collected.
MatchTemplates(templates, modules, httpApiFunc) ==
  IF Len(templates) # 1
  THEN NoUniqueRoute(templates)
  ELSE Resolve(templates[1], modules, httpApiFunc)

\* RocketRouter.Match: (RocketSpecificPath, None), (None, Error), or an
\* exception that leaves the call.
Match(rt, route, httpApiFunc) ==
  MatchTemplates(Matching(rt, route), Split(route, "/"), httpApiFunc)

\* GetRoutes
GetRoutes(rt) == [i \in DOMAIN rt |-> rt[i].v.TemplatedPathStr]

\* GetRoutesDetailed that shows the first method of a route only.
GetRoutesDetailed_FirstMethod(rt) ==
  [i \in DOMAIN rt |->
     rt[i].v.TemplatedPathStr \o <<" ", rt[i].v.HttpMethodsMap[1].k>>]

\* GetRoutesDetailed: "<Templated Path> <REST Methods>", the methods joined
\* by ","; a method name is one element of the string.
GetRoutesDetailed(rt) ==
  [i \in DOMAIN rt |->
     rt[i].v.TemplatedPathStr \o <<" ">>
       \o Join([j \in DOMAIN rt[i].v.HttpMethodsMap |->
                  <<rt[i].v.HttpMethodsMap[j].k>>], <<",">>)]

\* Rest.RespondWithError: builds the error response and aborts with it.
RespondWithError(status, error) ==
  [success |-> FALSE, message |-> error, http_code |-> status]

\* What a handler returns is opaque to the router: the call itself.
Call(function, kwargs) == [Function |-> function, Vars |-> kwargs]

\* HandleFunc answering every Match error with 404, as its comment says.
Dispatch_Always404(m) ==
  IF m.kind = "raise"
  THEN [kind |-> "raise", exc |-> m.exc, match |-> m,
        invoked |-> <<>>, responded |-> <<>>]
  ELSE IF m.kind = "err"
  THEN [kind |-> "abort",
        response |-> RespondWithError(NOT_FOUND, m.msg), match |-> m,
        invoked |-> <<>>,
        responded |-> <<[status |-> NOT_FOUND, error |-> m.msg]>>]
  ELSE [kind |-> "return", value |-> Call(m.Function, m.Vars), match |-> m,
        invoked |-> <<Call(m.Function, m.Vars)>>, responded |-> <<>>]

\* HandleFunc after its call of Match, which gave m: what left the call (a
\* handler's return value, the abort of RespondWithError, or the exception
\* of Match), the handler calls made and the RespondWithError calls made.
Dispatch(m) ==
  IF m.kind = "raise"
  THEN [kind |-> "raise", exc |-> m.exc, match |-> m,
        invoked |-> <<>>, responded |-> <<>>]
  ELSE IF m.kind = "err"
  THEN [kind |-> "abort",
        response |-> RespondWithError(m.status, m.msg), match |-> m,
        invoked |-> <<>>,
        responded |-> <<[status |-> m.status, error |-> m.msg]>>]
  ELSE [kind |-> "return", value |-> Call(m.Function, m.Vars), match |-> m,
        invoked |-> <<Call(m.Function, m.Vars)>>, responded |-> <<>>]

\* RocketRouter.HandleFunc
HandleFunc(rt, routePath, httpApiFunc) ==
  Dispatch(Match(rt, routePath, httpApiFunc))

(* ------------------------------ inputs -------------------------------- *)

\* A family of inputs: the templates T, handlers H and method lists ML that
\* Mount is called with, the paths P and methods RM that are requested, and
\* the type tags Tags that FromStr is called with.

\* Literal templates, one a prefix of the other.
\* T: /a/b  /a
\* P: a/b  /a/b  a/b/  a/bc  a/b/c  a  a/c  b/a
Literal ==
  [T |-> {<<"/", "a", "/", "b">>,
         <<"/", "a">>},
   H |-> {"h1"},
   ML |-> {<<"GET">>, <<"POST">>},
   RM |-> {"GET", "POST"},
   Tags |-> {},
   P |-> {<<"a", "/", "b">>,
         <<"/", "a", "/", "b">>,
         <<"a", "/", "b", "/">>,
         <<"a", "/", "b", "c">>,
         <<"a", "/", "b", "/", "c">>,
         <<"a">>,
         <<"a", "/", "c">>,
         <<"b", "/", "a">>}]

\* Two typed templates that overlap on integers.
\* T: /a/{x:str}  /a/{y:int64}
\* P: a/42  a/zz  a/4z  a/  b/42  a/42/c
Overlap ==
  [T |-> {<<"/", "a", "/", "{", "x", ":", "s", "t", "r", "}">>,
         <<"/", "a", "/", "{", "y", ":", "i", "n", "t", "6", "4", "}">>},
   H |-> {"h1", "h2"},
   ML |-> {<<"GET">>, <<"POST">>},
   RM |-> {"GET", "POST"},
   Tags |-> {},
   P |-> {<<"a", "/", "4", "2">>,
         <<"a", "/", "z", "z">>,
         <<"a", "/", "4", "z">>,
         <<"a", "/">>,
         <<"b", "/", "4", "2">>,
         <<"a", "/", "4", "2", "/", "c">>}]

\* An int64 variable.
\* T: /items/{n:int64}
\* P: items/42  items/-7  items/+07  items/0  items/abc  items/42abc  items/4_2  items/4.5  items/  items  items/42/x  items/42/  /items/42  item/42
Items ==
  [T |-> {<<"/", "i", "t", "e", "m", "s", "/", "{", "n", ":", "i", "n", "t", "6", "4", "}">>},
   H |-> {"h1", "h2"},
   ML |-> {<<"GET">>},
   RM |-> {"GET", "POST"},
   Tags |-> {},
   P |-> {<<"i", "t", "e", "m", "s", "/", "4", "2">>,
         <<"i", "t", "e", "m", "s", "/", "-", "7">>,
         <<"i", "t", "e", "m", "s", "/", "+", "0", "7">>,
         <<"i", "t", "e", "m", "s", "/", "0">>,
         <<"i", "t", "e", "m", "s", "/", "a", "b", "c">>,
         <<"i", "t", "e", "m", "s", "/", "4", "2", "a", "b", "c">>,
         <<"i", "t", "e", "m", "s", "/", "4", "_", "2">>,
         <<"i", "t", "e", "m", "s", "/", "4", ".", "5">>,
         <<"i", "t", "e", "m", "s", "/">>,
         <<"i", "t", "e", "m", "s">>,
         <<"i", "t", "e", "m", "s", "/", "4", "2", "/", "x">>,
         <<"i", "t", "e", "m", "s", "/", "4", "2", "/">>,
         <<"/", "i", "t", "e", "m", "s", "/", "4", "2">>,
         <<"i", "t", "e", "m", "/", "4", "2">>}]

\* The details route of the application.
\* T: /kng/{kid:str}/details
\* P: kng/abc-1/details  kng/abc-1/detail  kng/abc-1/details/x  kng/abc-1/detailsx  kng/abc-1  kng//details  kng/a/b/details  /kng/abc-1/details  kng/list/details
Details ==
  [T |-> {<<"/", "k", "n", "g", "/", "{", "k", "i", "d", ":", "s", "t", "r", "}", "/", "d", "e", "t", "a", "i", "l", "s">>},
   H |-> {"h1", "h2"},
   ML |-> {<<"GET">>},
   RM |-> {"GET", "POST"},
   Tags |-> {},
   P |-> {<<"k", "n", "g", "/", "a", "b", "c", "-", "1", "/", "d", "e", "t", "a", "i", "l", "s">>,
         <<"k", "n", "g", "/", "a", "b", "c", "-", "1", "/", "d", "e", "t", "a", "i", "l">>,
         <<"k", "n", "g", "/", "a", "b", "c", "-", "1", "/", "d", "e", "t", "a", "i", "l", "s", "/", "x">>,
         <<"k", "n", "g", "/", "a", "b", "c", "-", "1", "/", "d", "e", "t", "a", "i", "l", "s", "x">>,
         <<"k", "n", "g", "/", "a", "b", "c", "-", "1">>,
         <<"k", "n", "g", "/", "/", "d", "e", "t", "a", "i", "l", "s">>,
         <<"k", "n", "g", "/", "a", "/", "b", "/", "d", "e", "t", "a", "i", "l", "s">>,
         <<"/", "k", "n", "g", "/", "a", "b", "c", "-", "1", "/", "d", "e", "t", "a", "i", "l", "s">>,
         <<"k", "n", "g", "/", "l", "i", "s", "t", "/", "d", "e", "t", "a", "i", "l", "s">>}]

\* Supported and unsupported method names.
\* T: /x
\* P: x  y
Methods ==
  [T |-> {<<"/", "x">>},
   H |-> {"h1", "h2"},
   ML |-> {<<"GET">>, <<"POST">>, <<"FETCH">>, <<"GET", "FETCH">>},
   RM |-> {"GET", "POST", "FETCH"},
   Tags |-> {},
   P |-> {<<"x">>,
         <<"y">>}]

\* One template written with and without leading and trailing slashes.
\* T: /a/b  a/b/  /a/b/  /a/c
\* P: a/b  /a/b  a/b/  /a/b/  a/c  a
Slashes ==
  [T |-> {<<"/", "a", "/", "b">>,
         <<"a", "/", "b", "/">>,
         <<"/", "a", "/", "b", "/">>,
         <<"/", "a", "/", "c">>},
   H |-> {"h1"},
   ML |-> {<<"GET">>, <<"POST">>},
   RM |-> {"GET", "POST"},
   Tags |-> {},
   P |-> {<<"a", "/", "b">>,
         <<"/", "a", "/", "b">>,
         <<"a", "/", "b", "/">>,
         <<"/", "a", "/", "b", "/">>,
         <<"a", "/", "c">>,
         <<"a">>}]

\* A float64 variable before a literal, and a uuid4 variable.
\* T: /f/{v:float64}/x  /u/{id:uuid4}
\* P: f/1.5/x  12/x  f/1.5  f/.5/x  f/1e5/x  f/abc/x  f/5/y  f/-2/x  u/123e4567-e89b-42d3-a456-426614174000  u/123e4567e89b42d3a456426614174000  u/123e4567-e89b-12d3-a456-426614174000  u/123e4567-e89b-42d3-a456-426614174000ff
Types ==
  [T |-> {<<"/", "f", "/", "{", "v", ":", "f", "l", "o", "a", "t", "6", "4", "}", "/", "x">>,
         <<"/", "u", "/", "{", "i", "d", ":", "u", "u", "i", "d", "4", "}">>},
   H |-> {"h1"},
   ML |-> {<<"GET">>},
   RM |-> {"GET"},
   Tags |-> {},
   P |-> {<<"f", "/", "1", ".", "5", "/", "x">>,
         <<"1", "2", "/", "x">>,
         <<"f", "/", "1", ".", "5">>,
         <<"f", "/", ".", "5", "/", "x">>,
         <<"f", "/", "1", "e", "5", "/", "x">>,
         <<"f", "/", "a", "b", "c", "/", "x">>,
         <<"f", "/", "5", "/", "y">>,
         <<"f", "/", "-", "2", "/", "x">>,
         <<"u", "/", "1", "2", "3", "e", "4", "5", "6", "7", "-", "e", "8", "9", "b", "-", "4", "2", "d", "3", "-", "a", "4", "5", "6", "-", "4", "2", "6", "6", "1", "4", "1", "7", "4", "0", "0", "0">>,
         <<"u", "/", "1", "2", "3", "e", "4", "5", "6", "7", "e", "8", "9", "b", "4", "2", "d", "3", "a", "4", "5", "6", "4", "2", "6", "6", "1", "4", "1", "7", "4", "0", "0", "0">>,
         <<"u", "/", "1", "2", "3", "e", "4", "5", "6", "7", "-", "e", "8", "9", "b", "-", "1", "2", "d", "3", "-", "a", "4", "5", "6", "-", "4", "2", "6", "6", "1", "4", "1", "7", "4", "0", "0", "0">>,
         <<"u", "/", "1", "2", "3", "e", "4", "5", "6", "7", "-", "e", "8", "9", "b", "-", "4", "2", "d", "3", "-", "a", "4", "5", "6", "-", "4", "2", "6", "6", "1", "4", "1", "7", "4", "0", "0", "0", "f", "f">>}]

\* Type tags in several spellings, and tags no type is named by.
\* T: /t/{v:str}  /t/{v:INT64}  /t/{v:Int64}  /t/{v:int64}  /t/{v:foo}
\* P: t/ab  t/42
TypeTags ==
  [T |-> {<<"/", "t", "/", "{", "v", ":", "s", "t", "r", "}">>,
         <<"/", "t", "/", "{", "v", ":", "I", "N", "T", "6", "4", "}">>,
         <<"/", "t", "/", "{", "v", ":", "I", "n", "t", "6", "4", "}">>,
         <<"/", "t", "/", "{", "v", ":", "i", "n", "t", "6", "4", "}">>,
         <<"/", "t", "/", "{", "v", ":", "f", "o", "o", "}">>},
   H |-> {"h1"},
   ML |-> {<<"GET">>},
   RM |-> {"GET"},
   Tags |-> {<<"s", "t", "r">>,
            <<"S", "T", "R">>,
            <<"S", "t", "r">>,
            <<"i", "n", "t", "6", "4">>,
            <<"I", "N", "T", "6", "4">>,
            <<"I", "n", "t", "6", "4">>,
            <<"f", "l", "o", "a", "t", "6", "4">>,
            <<"F", "L", "O", "A", "T", "6", "4">>,
            <<"F", "l", "o", "a", "t", "6", "4">>,
            <<"u", "u", "i", "d", "4">>,
            <<"U", "U", "I", "D", "4">>,
            <<"U", "u", "i", "d", "4">>,
            <<"f", "o", "o">>,
            <<>>,
            <<"i", "n", "t">>,
            <<"s", "t", "r", "i", "n", "g">>,
            <<"t", "o", "s", "t", "r">>},
   P |-> {<<"t", "/", "a", "b">>,
         <<"t", "/", "4", "2">>}]

\* The table that concurrent requests are served from.
\* T: /a/{x:str}  /a/{y:int64}
\* P: a/42  a/zz  b
Requests ==
  [T |-> {<<"/", "a", "/", "{", "x", ":", "s", "t", "r", "}">>,
         <<"/", "a", "/", "{", "y", ":", "i", "n", "t", "6", "4", "}">>},
   H |-> {"h1"},
   ML |-> {<<"GET">>},
   RM |-> {"GET", "POST"},
   Tags |-> {},
   P |-> {<<"a", "/", "4", "2">>,
         <<"a", "/", "z", "z">>,
         <<"b">>}]

\* A float64 variable followed by a str variable.
\* T: /x/{v:float64}/{s:str}
\* P: x/5/zz  x/5//zz  x/5  7/zz  x/5/  x/1.5/a/b
Positions ==
  [T |-> {<<"/", "x", "/", "{", "v", ":", "f", "l", "o", "a", "t", "6", "4", "}", "/", "{", "s", ":", "s", "t", "r", "}">>},
   H |-> {"h1"},
   ML |-> {<<"GET">>},
   RM |-> {"GET"},
   Tags |-> {},
   P |-> {<<"x", "/", "5", "/", "z", "z">>,
         <<"x", "/", "5", "/", "/", "z", "z">>,
         <<"x", "/", "5">>,
         <<"7", "/", "z", "z">>,
         <<"x", "/", "5", "/">>,
         <<"x", "/", "1", ".", "5", "/", "a", "/", "b">>}]

\* Two templates that differ in the name of their variable only.
\* T: /a/{x:str}  /a/{y:str}
\* P: a/zz  b
Renamed ==
  [T |-> {<<"/", "a", "/", "{", "x", ":", "s", "t", "r", "}">>,
         <<"/", "a", "/", "{", "y", ":", "s", "t", "r", "}">>},
   H |-> {"h1", "h2"},
   ML |-> {<<"GET">>, <<"POST">>},
   RM |-> {"GET", "POST"},
   Tags |-> {},
   P |-> {<<"a", "/", "z", "z">>,
         <<"b">>}]

\* An int64 variable and integers around the ends of the 64-bit range.
\* T: /n/{n:int64}
\* P: n/42  n/9223372036854775807  n/9223372036854775808  n/-9223372036854775808  n/-9223372036854775809  n/-007
Wide ==
  [T |-> {<<"/", "n", "/", "{", "n", ":", "i", "n", "t", "6", "4", "}">>},
   H |-> {"h1"},
   ML |-> {<<"GET">>},
   RM |-> {"GET"},
   Tags |-> {},
   P |-> {<<"n", "/", "4", "2">>,
         <<"n", "/", "9", "2", "2", "3", "3", "7", "2", "0", "3", "6", "8", "5", "4", "7", "7", "5", "8", "0", "7">>,
         <<"n", "/", "9", "2", "2", "3", "3", "7", "2", "0", "3", "6", "8", "5", "4", "7", "7", "5", "8", "0", "8">>,
         <<"n", "/", "-", "9", "2", "2", "3", "3", "7", "2", "0", "3", "6", "8", "5", "4", "7", "7", "5", "8", "0", "8">>,
         <<"n", "/", "-", "9", "2", "2", "3", "3", "7", "2", "0", "3", "6", "8", "5", "4", "7", "7", "5", "8", "0", "9">>,
         <<"n", "/", "-", "0", "0", "7">>}]

\* A behaviour mounts and requests within one of these families.
Universes ==
  <<Literal, Overlap, Items, Details, Methods, Slashes, Types, TypeTags, Requests,
    Positions, Renamed, Wide>>

U == Universes[univ]

(* ------------------------------ actions ------------------------------- *)

\* The threads that serve requests.
Workers == {"w1", "w2"}

\* A thread that serves no request.
Idle == [pc |-> "idle"]

\* The knowledge graph identifiers that requests name in their path.
Kids == {"k1", "k2"}

\* A file that does not exist, a file opened for writing and not yet
\* written, and a metadata.json holding a json object.  graph names the
\* upload the knowledge_base, created and size entries describe; ai is the
\* "ai_models" entry, "none" when the object has no such key.
NoFile == [state |-> "absent"]
Truncated == [state |-> "empty"]
Metadata(graph, ai) == [state |-> "json", graph |-> graph, ai |-> ai]

\* The folder <Store.Mutable>/<kid>: whether it exists, the upload that
\* raw_graph_data.npy holds (0: no file), metadata.json, and the upload that
\* the model in complex.pkl was fitted to (0: no file).
NoFolder == [dir |-> FALSE, raw |-> 0, metadata |-> NoFile, pkl |-> 0]

\* An empty mutable store; no request was received yet.
EmptyStore == [kng |-> [k \in Kids |-> NoFolder], requests |-> 0]

\* A new router; no thread serves a request, no Singleton is initialised,
\* and the mutable store is empty.
Init ==
  /\ univ \in DOMAIN Universes
  /\ routes = <<>>
  /\ pre = <<>>
  /\ log = <<>>
  /\ last = [op |-> "init"]
  /\ workers = [w \in Workers |-> Idle]
  /\ instances = <<>>
  /\ constructed = 0
  /\ store = EmptyStore

\* The record of a Mount call with its outcome r.
Mounted(t, f, ms, r) ==
  /\ routes' = r.routes
  /\ log' = Append(log, [templatedPathStr |-> t, functionPtr |-> f,
                         acceptedHttpMethods |-> ms, raised |-> r.raised])
  /\ last' = [op |-> "Mount",
              call |-> [templatedPathStr |-> t, functionPtr |-> f,
                        acceptedHttpMethods |-> ms, raised |-> r.raised]]

\* router.Mount(templatedPathStr, functionPtr, acceptedHttpMethods)
MountCall ==
  /\ Len(log) < MaxMounts
  /\ \E t \in U.T, f \in U.H, ms \in U.ML :
       Mounted(t, f, ms, Mount(routes, t, f, ms))
  /\ pre' = routes
  /\ UNCHANGED <<univ, workers, instances, constructed, store>>

MatchCall_DropsMatched ==
  /\ \E p \in U.P, m \in U.RM :
       /\ last' = [op |-> "Match", route |-> p, httpApiFunc |-> m,
                   out |-> Match(routes, p, m)]
       /\ routes' = SelectSeq(routes, LAMBDA r : ~ReMatch(r.k, p))
  /\ pre' = routes
  /\ UNCHANGED <<univ, log, workers, instances, constructed, store>>

\* router.Match(route, httpApiFunc)
MatchCall ==
  /\ \E p \in U.P, m \in U.RM :
       last' = [op |-> "Match", route |-> p, httpApiFunc |-> m,
                out |-> Match(routes, p, m)]
  /\ pre' = routes
  /\ UNCHANGED <<univ, routes, log, workers, instances, constructed, store>>

\* router.HandleFunc(routePath, httpApiFunc), as the catch-all flask route
\* calls it.
HandleFuncCall ==
  /\ \E p \in U.P, m \in U.RM :
       last' = [op |-> "HandleFunc", route |-> p, httpApiFunc |-> m,
                out |-> HandleFunc(routes, p, m)]
  /\ pre' = routes
  /\ UNCHANGED <<univ, routes, log, workers, instances, constructed, store>>

\* router.GetRoutes()
GetRoutesCall ==
  /\ last' = [op |-> "GetRoutes", out |-> GetRoutes(routes)]
  /\ pre' = routes
  /\ UNCHANGED <<univ, routes, log, workers, instances, constructed, store>>

\* router.GetRoutesDetailed()
GetRoutesDetailedCall ==
  /\ last' = [op |-> "GetRoutesDetailed", out |-> GetRoutesDetailed(routes)]
  /\ pre' = routes
  /\ UNCHANGED <<univ, routes, log, workers, instances, constructed, store>>

\* RocketPathVariableTypes.FromStr(t)
FromStrCall ==
  /\ \E t \in U.Tags :
       last' = [op |-> "FromStr", t |-> t, out |-> FromStr(t)]
  /\ pre' = routes
  /\ UNCHANGED <<univ, routes, log, workers, instances, constructed, store>>

Next ==
  \/ MountCall
  \/ MatchCall
  \/ HandleFuncCall
  \/ GetRoutesCall
  \/ GetRoutesDetailedCall
  \/ FromStrCall

Spec == Init /\ [][Next]_vars

(* ------------------------- concurrent requests ------------------------ *)

\* Flask serves each request in a thread of its own; every thread ends in
\* HandleFunc on the one router.  A call is in steps: its locals are set up,
\* the table is scanned route by route, the outcome is computed.

\* A thread has begun to serve: mounting has finished.
Serving == \E w \in Workers : workers[w] # Idle

\* The locals of a call of Match at the start of its scan.
Begun(op, route, httpApiFunc) ==
  [pc |-> "scan", op |-> op, route |-> route, httpApiFunc |-> httpApiFunc,
   i |-> 1, templates |-> <<>>, modules |-> Split(route, "/")]

\* The scan of a router that keeps the matches in a list of its own, shared
\* by the calls in progress.
Scan_SharedList(ws, w, rt) ==
  [v \in DOMAIN ws |->
     IF ws[v].pc # "scan" THEN ws[v]
     ELSE [ws[v] EXCEPT
             !.i = IF v = w THEN @ + 1 ELSE @,
             !.templates = IF ReMatch(rt[ws[w].i].k, ws[w].route)
                           THEN Append(@, rt[ws[w].i].v) ELSE @]]

\* One pass of the loop over self.routes.items() in the call of thread w:
\* the template is appended to the call's list when its regex matches.
Scan(ws, w, rt) ==
  [ws EXCEPT ![w] =
     [@ EXCEPT !.i = @ + 1,
               !.templates = IF ReMatch(rt[ws[w].i].k, ws[w].route)
                             THEN Append(@, rt[ws[w].i].v) ELSE @]]

\* What the call with locals c gives after its scan.
Outcome(c) ==
  IF c.op = "Match"
  THEN MatchTemplates(c.templates, c.modules, c.httpApiFunc)
  ELSE Dispatch(MatchTemplates(c.templates, c.modules, c.httpApiFunc))

\* A call that has returned; among are the threads whose call was in
\* progress at that moment.
Returned(c, among) ==
  [pc |-> "done", op |-> c.op, route |-> c.route,
   httpApiFunc |-> c.httpApiFunc, out |-> Outcome(c), among |-> among]

\* Mount, while no thread serves.
ServeMount == ~Serving /\ MountCall

\* Thread w takes a request.
Begin(w) ==
  /\ workers[w] = Idle
  /\ \E op \in {"Match", "HandleFunc"}, p \in U.P, m \in U.RM :
       workers' = [workers EXCEPT ![w] = Begun(op, p, m)]
  /\ UNCHANGED <<univ, routes, pre, log, last, instances, constructed, store>>

\* Thread w examines the next route.
ScanStep(w) ==
  /\ workers[w].pc = "scan"
  /\ workers[w].i <= Len(routes)
  /\ workers' = Scan(workers, w, routes)
  /\ UNCHANGED <<univ, routes, pre, log, last, instances, constructed, store>>

\* The call of thread w returns.
Return(w) ==
  /\ workers[w].pc = "scan"
  /\ workers[w].i > Len(routes)
  /\ workers' =
       [workers EXCEPT ![w] =
          Returned(@, {v \in Workers \ {w} : workers[v].pc = "scan"})]
  /\ UNCHANGED <<univ, routes, pre, log, last, instances, constructed, store>>

ServingInit == Init /\ Universes[univ] = Requests

ServingNext ==
  \/ ServeMount
  \/ \E w \in Workers : Begin(w)
  \/ \E w \in Workers : ScanStep(w)
  \/ \E w \in Workers : Return(w)

SpecServing == ServingInit /\ [][ServingNext]_vars

(* ------------------------------ Singleton ----------------------------- *)

\* PyAdditions.Types.SingletonMeta.  __instances__ is a dictionary from the
\* class to its instance; an object is named by the number of the
\* constructor run that made it.

\* The Singleton classes: ApplicationContext and one more.
Classes == {"ApplicationContext", "Other"}

\* What a run of the constructor gives now: a new object, or an exception.
Construction == {Value(constructed + 1), Raise("Exception")}

\* SingletonMeta.Delete
Delete(reg, cls) ==
  IF DictHas(reg, cls) THEN SelectSeq(reg, LAMBDA e : e.k # cls) ELSE reg

\* Init that runs the constructor on every call.
SingletonInit_Rebuilds(reg, cls, obj) ==
  IF obj.ok
  THEN [instances |-> DictSet(reg, cls, obj.val), out |-> obj, ran |-> 1]
  ELSE [instances |-> reg, out |-> obj, ran |-> 1]

\* SingletonMeta.Init on the registry reg; obj is what the constructor
\* gives if it is run.  ran counts the constructor runs of the call.
SingletonInit(reg, cls, obj) ==
  IF DictHas(reg, cls)
  THEN [instances |-> reg, out |-> Value(DictVal(reg, cls)), ran |-> 0]
  ELSE IF obj.ok
  THEN [instances |-> DictSet(reg, cls, obj.val), out |-> obj, ran |-> 1]
  ELSE [instances |-> reg, out |-> obj, ran |-> 1]

\* SingletonMeta.Instance
Instance(reg, cls, obj) ==
  IF DictHas(reg, cls)
  THEN [instances |-> reg, out |-> Value(DictVal(reg, cls)), ran |-> 0]
  ELSE SingletonInit(reg, cls, obj)

\* SingletonMeta.ForceInit
ForceInit(reg, cls, obj) == SingletonInit(Delete(reg, cls), cls, obj)

\* The call op of class cls gave r; before is the registry it was made on.
Applied(op, cls, r) ==
  /\ instances' = r.instances
  /\ constructed' = constructed + r.ran
  /\ last' = [op |-> op, cls |-> cls, out |-> r.out, ran |-> r.ran,
              before |-> instances]
  /\ UNCHANGED <<univ, routes, pre, log, workers, store>>

\* cls.Init()
InitCall ==
  /\ constructed < MaxConstructed
  /\ \E cls \in Classes, obj \in Construction :
       Applied("Init", cls, SingletonInit(instances, cls, obj))

\* cls.Instance()
InstanceCall ==
  /\ constructed < MaxConstructed
  /\ \E cls \in Classes, obj \in Construction :
       Applied("Instance", cls, Instance(instances, cls, obj))

\* cls.ForceInit()
ForceInitCall ==
  /\ constructed < MaxConstructed
  /\ \E cls \in Classes, obj \in Construction :
       Applied("ForceInit", cls, ForceInit(instances, cls, obj))

\* cls.Delete(), which returns None.
DeleteCall ==
  /\ \E cls \in Classes :
       Applied("Delete", cls,
               [instances |-> Delete(instances, cls), out |-> Value(<<>>),
                ran |-> 0])

SingletonStart == Init /\ univ = 1

SingletonNext ==
  \/ InitCall
  \/ InstanceCall
  \/ ForceInitCall
  \/ DeleteCall

SpecSingleton == SingletonStart /\ [][SingletonNext]_vars

(* ------------------------ Singleton under threads --------------------- *)

\* Threads call Init() and Instance() of classes that have no instance yet.
\* Nothing in SingletonMeta is locked, so a thread may be suspended between
\* any two of: the check of Instance, the check of Init, the run of the
\* constructor, the store into __instances__, and the read that is returned.

\* Thread w calls cls.Init() or cls.Instance().
Enter(w) ==
  /\ workers[w] = Idle
  /\ \E op \in {"Init", "Instance"}, cls \in Classes :
       workers' = [workers EXCEPT ![w] =
                     [pc |-> IF op = "Init" THEN "Init" ELSE "Instance",
                      op |-> op, cls |-> cls, ran |-> 0]]
  /\ UNCHANGED <<univ, routes, pre, log, last, instances, constructed, store>>

\* Instance: if cls.__instances__.get(cls) is not None, else cls.Init().
CheckInstance(w) ==
  /\ workers[w].pc = "Instance"
  /\ workers' = [workers EXCEPT ![w].pc =
                   IF DictHas(instances, workers[w].cls)
                   THEN "return" ELSE "Init"]
  /\ UNCHANGED <<univ, routes, pre, log, last, instances, constructed, store>>

\* Init: if cls.__instances__.get(cls) is not None (warn), else construct.
CheckInit(w) ==
  /\ workers[w].pc = "Init"
  /\ workers' = [workers EXCEPT ![w].pc =
                   IF DictHas(instances, workers[w].cls)
                   THEN "return" ELSE "construct"]
  /\ UNCHANGED <<univ, routes, pre, log, last, instances, constructed, store>>

\* super(SingletonMeta, cls).__call__(): the constructor makes an object.
Construct(w) ==
  /\ workers[w].pc = "construct"
  /\ constructed' = constructed + 1
  /\ workers' = [workers EXCEPT ![w] =
                   [pc |-> "store", op |-> @.op, cls |-> @.cls, ran |-> 1,
                    obj |-> constructed + 1]]
  /\ UNCHANGED <<univ, routes, pre, log, last, instances, store>>

\* cls.__instances__[cls] = the object made.
Store(w) ==
  /\ workers[w].pc = "store"
  /\ instances' = DictSet(instances, workers[w].cls, workers[w].obj)
  /\ workers' = [workers EXCEPT ![w].pc = "return"]
  /\ UNCHANGED <<univ, routes, pre, log, last, constructed, store>>

\* return cls.__instances__[cls]
Leave(w) ==
  /\ workers[w].pc = "return"
  /\ workers' = [workers EXCEPT ![w] =
                   [pc |-> "done", op |-> @.op, cls |-> @.cls,
                    ran |-> @.ran,
                    out |-> DictVal(instances, workers[w].cls)]]
  /\ UNCHANGED <<univ, routes, pre, log, last, instances, constructed, store>>

ThreadsStart == Init /\ univ = 1

ThreadsNext ==
  \/ \E w \in Workers : Enter(w)
  \/ \E w \in Workers : CheckInstance(w)
  \/ \E w \in Workers : CheckInit(w)
  \/ \E w \in Workers : Construct(w)
  \/ \E w \in Workers : Store(w)
  \/ \E w \in Workers : Leave(w)

SpecThreads == ThreadsStart /\ [][ThreadsNext]_vars

(* ------------------- the handlers on the mutable store ------------------ *)

\* The handlers that read or write <Store.Mutable>.
StoreHandlers == {"PostKngCreate", "GetKngTrainModel", "PostKngPredict", "GetKngDetails", "GetKngList"}

\* The first statement of a handler.
Entry(op) ==
  CASE op = "PostKngCreate" -> "makedirs"
    [] op = "GetKngTrainModel" -> "load"
    [] op = "PostKngPredict" -> "predict"
    [] op = "GetKngDetails" -> "details"
    [] op = "GetKngList" -> "listdir"

\* with open(metadataPath, "w"): the file exists and is empty.
OpenW(st, kid) == [st EXCEPT !.kng[kid].metadata = Truncated]

\* json.dump(metadata, f): the file holds the object.
JsonDump(st, kid, metadata) == [st EXCEPT !.kng[kid].metadata = metadata]

\* json.load(open(metadataPath, "r")): the object, or the exception of a
\* missing file or of a file without a json document.
JsonLoad(st, kid) ==
  CASE st.kng[kid].metadata = NoFile -> Raise("FileNotFoundError")
    [] st.kng[kid].metadata = Truncated -> Raise("JSONDecodeError")
    [] OTHER -> Value(st.kng[kid].metadata)

\* The thread goes on with the statement at pc, its locals being loc.
Goes(w, pc, loc) ==
  workers' = [workers EXCEPT ![w] = [pc |-> pc, op |-> @.op, kid |-> @.kid, graph |-> @.graph, loc |-> loc]]

\* The request of the thread ends with out, a response or an exception.
Ends(w, out) ==
  /\ workers' = [workers EXCEPT ![w] = Idle]
  /\ last' = [op |-> workers[w].op, kid |-> workers[w].kid, out |-> out]

\* waitress hands a request to a free thread, which calls the handler; an
\* upload is named by the number of the request that brings it.
Receive(w) ==
  /\ workers[w] = Idle
  /\ store.requests < MaxRequests
  /\ \E op \in StoreHandlers, kid \in Kids :
       workers' = [workers EXCEPT ![w] = [pc |-> Entry(op), op |-> op, kid |-> kid, graph |-> store.requests + 1, loc |-> NoFile]]
  /\ store' = [store EXCEPT !.requests = @ + 1]
  /\ UNCHANGED <<univ, routes, pre, log, last, instances, constructed>>

\* PostKngCreate: os.makedirs(storageFolder, exist_ok=True).
MakeDirs(w) ==
  /\ workers[w].pc = "makedirs"
  /\ store' = [store EXCEPT !.kng[workers[w].kid].dir = TRUE]
  /\ Goes(w, "extract", NoFile)
  /\ UNCHANGED <<univ, routes, pre, log, last, instances, constructed>>

\* PostKngCreate: the uploads are saved, parsed and turned into tuples;
\* any of these calls may raise.
Extract(w) ==
  /\ workers[w].pc = "extract"
  /\ \/ Goes(w, "np.save", NoFile) /\ UNCHANGED last
     \/ Ends(w, Raise("Exception"))
  /\ UNCHANGED <<univ, routes, pre, log, instances, constructed, store>>

\* PostKngCreate: np.save(raw_graph_data.npy, kngNpArray); the metadata of
\* the upload is the next file to write.
SaveGraph(w) ==
  /\ workers[w].pc = "np.save"
  /\ store' = [store EXCEPT !.kng[workers[w].kid].raw = workers[w].graph]
  /\ Goes(w, "open", [then |-> "respond", metadata |-> Metadata(workers[w].graph, "none")])
  /\ UNCHANGED <<univ, routes, pre, log, last, instances, constructed>>

\* GetKngTrainModel: metadata = json.load(f), then metadata["ai_models"] =
\* "training..." is the object to write.
LoadMetadata(w) ==
  /\ workers[w].pc = "load"
  /\ LET r == JsonLoad(store, workers[w].kid)
     IN IF r.ok
        THEN Goes(w, "open", [then |-> "fit", metadata |-> [r.val EXCEPT !.ai = "training..."]]) /\ UNCHANGED last
        ELSE Ends(w, r)
  /\ UNCHANGED <<univ, routes, pre, log, instances, constructed, store>>

\* Both handlers: with open(metadataPath, "w") as f.
OpenMetadata(w) ==
  /\ workers[w].pc = "open"
  /\ store' = OpenW(store, workers[w].kid)
  /\ Goes(w, "dump", workers[w].loc)
  /\ UNCHANGED <<univ, routes, pre, log, last, instances, constructed>>

\* Both handlers: json.dump(metadata, f).
DumpMetadata(w) ==
  /\ workers[w].pc = "dump"
  /\ store' = JsonDump(store, workers[w].kid, workers[w].loc.metadata)
  /\ Goes(w, workers[w].loc.then, workers[w].loc)
  /\ UNCHANGED <<univ, routes, pre, log, last, instances, constructed>>

\* GetKngTrainModel: X = np.load(raw_graph_data.npy) and model.fit(X); the
\* load raises without the file, and the fit may raise.
Fit(w) ==
  /\ workers[w].pc = "fit"
  /\ IF store.kng[workers[w].kid].raw = 0
     THEN Ends(w, Raise("FileNotFoundError"))
     ELSE \/ Goes(w, "save_model", [metadata |-> workers[w].loc.metadata, X |-> store.kng[workers[w].kid].raw])
             /\ UNCHANGED last
          \/ Ends(w, Raise("Exception"))
  /\ UNCHANGED <<univ, routes, pre, log, instances, constructed, store>>

\* GetKngTrainModel: save_model(model, complex.pkl), then
\* metadata["ai_models"] = "ComplEx" is the object to write.
SaveModel(w) ==
  /\ workers[w].pc = "save_model"
  /\ store' = [store EXCEPT !.kng[workers[w].kid].pkl = workers[w].loc.X]
  /\ Goes(w, "open", [then |-> "respond", metadata |-> [workers[w].loc.metadata EXCEPT !.ai = "ComplEx"]])
  /\ UNCHANGED <<univ, routes, pre, log, last, instances, constructed>>

\* Both handlers: return CreateResponseJson(HttpStatus.OK, {}); before it
\* PostKngCreate writes graph_visualisation.html and removes its upload
\* folder, files that no other handler of the store reads.
Respond(w) ==
  /\ workers[w].pc = "respond"
  /\ Ends(w, Value([status |-> 200]))
  /\ UNCHANGED <<univ, routes, pre, log, instances, constructed, store>>

\* PostKngPredict: restore_model(complex.pkl) raises without the file; the
\* restored model answers for the nodes it was fitted to and the handler
\* answers BAD_REQUEST for any other sentence.
PostKngPredict(w) ==
  /\ workers[w].pc = "predict"
  /\ IF store.kng[workers[w].kid].pkl = 0
     THEN Ends(w, Raise("FileNotFoundError"))
     ELSE \/ Ends(w, Value([status |-> 200, model |-> store.kng[workers[w].kid].pkl]))
          \/ Ends(w, Value([status |-> 400]))
  /\ UNCHANGED <<univ, routes, pre, log, instances, constructed, store>>

\* GetKngDetails: the metadata of the folder, with "none" for a missing
\* ai_models entry.
GetKngDetails(w) ==
  /\ workers[w].pc = "details"
  /\ Ends(w, JsonLoad(store, workers[w].kid))
  /\ UNCHANGED <<univ, routes, pre, log, instances, constructed, store>>

\* GetKngList: kngs = os.listdir(Store.Mutable).
ListDir(w) ==
  /\ workers[w].pc = "listdir"
  /\ Goes(w, "each", [kngs |-> {k \in Kids : store.kng[k].dir}, results |-> {}])
  /\ UNCHANGED <<univ, routes, pre, log, last, instances, constructed, store>>

\* GetKngList: one turn of the loop over kngs, which loads the metadata of
\* the next folder, or the response after the last turn.
ListEach(w) ==
  /\ workers[w].pc = "each"
  /\ IF workers[w].loc.kngs = {}
     THEN Ends(w, Value(workers[w].loc.results))
     ELSE \E k \in workers[w].loc.kngs :
            LET r == JsonLoad(store, k)
            IN IF r.ok
               THEN Goes(w, "each", [kngs |-> workers[w].loc.kngs \ {k}, results |-> workers[w].loc.results \cup {[kid |-> k, data |-> r.val]}])
                    /\ UNCHANGED last
               ELSE Ends(w, r)
  /\ UNCHANGED <<univ, routes, pre, log, instances, constructed, store>>

\* The store as the server finds it at its first start.
StoreStart == Init /\ univ = 1

StoreNext ==
  \/ \E w \in Workers : Receive(w)
  \/ \E w \in Workers : MakeDirs(w)
  \/ \E w \in Workers : Extract(w)
  \/ \E w \in Workers : SaveGraph(w)
  \/ \E w \in Workers : LoadMetadata(w)
  \/ \E w \in Workers : OpenMetadata(w)
  \/ \E w \in Workers : DumpMetadata(w)
  \/ \E w \in Workers : Fit(w)
  \/ \E w \in Workers : SaveModel(w)
  \/ \E w \in Workers : Respond(w)
  \/ \E w \in Workers : PostKngPredict(w)
  \/ \E w \in Workers : GetKngDetails(w)
  \/ \E w \in Workers : ListDir(w)
  \/ \E w \in Workers : ListEach(w)

SpecStore == StoreStart /\ [][StoreNext]_vars

(* ------------------------------ claims -------------------------------- *)

\* The last operation ran Match (directly, or inside HandleFunc).
Matched == last.op \in {"Match", "HandleFunc"}

\* What that Match gave.
MatchOut == IF last.op = "Match" THEN last.out ELSE last.out.match

\* The non-empty "/"-delimited segments of a path or template.
Segments(s) == SelectSeq(Split(s, "/"), LAMBDA x : x # <<>>)

\* A template without variables.
VariableFree(t) == \A i \in DOMAIN Segments(t) : Segments(t)[i][1] # "{"

\* The methods registered on a route.
MethodsOf(r) == {r.HttpMethodsMap[j].k : j \in DOMAIN r.HttpMethodsMap}

\* The routes of the table whose matcher matches the path.
Candidates(path) == {i \in DOMAIN routes : ReMatch(routes[i].k, path)}

\* An optionally signed run of decimal digits.
IntegerLiteral(s) ==
  LET d == IF s # <<>> /\ s[1] \in {"-", "+"} THEN Tail(s) ELSE s
  IN  d # <<>> /\ \A i \in DOMAIN d : d[i] \in Digit

\* A run of digits without its leading zeros.
RECURSIVE Significant(_)
Significant(d) ==
  IF Len(d) > 1 /\ d[1] = "0" THEN Significant(Tail(d)) ELSE d

\* The integer that the literal s denotes: negative or not, and its digits.
IntegerValue(s) ==
  LET d == Significant(IF s[1] \in {"-", "+"} THEN Tail(s) ELSE s)
  IN  [t |-> "int", neg |-> s[1] = "-" /\ d # <<"0">>, digits |-> d]

SupportedVerbs == {"GET", "POST", "PUT", "DELETE", "PATCH"}

\* C1: with a single variable-free template T mounted with method set M,
\* Match(p, m) resolves if and only if the segments of p are those of T and
\* m is in M.  The code's matcher accepts every path that starts with the
\* joined template and no path with a leading slash.
C1_LiteralMatchIffSameSegments ==
  (Matched /\ Len(routes) = 1 /\ VariableFree(routes[1].v.TemplatedPathStr))
    => ( MatchOut.kind = "ok"
         <=> /\ Segments(last.route) = Segments(routes[1].v.TemplatedPathStr)
             /\ last.httpApiFunc \in MethodsOf(routes[1].v) )

C3_UniqueRouteMethodOrResolve ==
  (Matched /\ Cardinality(Candidates(last.route)) = 1)
    => LET r == routes[CHOOSE i \in Candidates(last.route) : TRUE].v
       IN  IF last.httpApiFunc \notin MethodsOf(r)
           THEN MatchOut.kind = "err" /\ MatchOut.status = 405
           ELSE /\ MatchOut.kind = "ok"
                /\ MatchOut.Function
                     = DictVal(r.HttpMethodsMap, last.httpApiFunc)
                /\ Range(DictKeys(MatchOut.Vars))
                     = {r.TemplatedPathVariables[j].Name :
                          j \in DOMAIN r.TemplatedPathVariables}

\* The path items/<s> of a request for the segment s, or <<>>.
ItemOf(path) ==
  LET prefix == <<"i", "t", "e", "m", "s", "/">>
  IN  IF Len(path) > 6 /\ SubSeq(path, 1, 6) = prefix
         /\ \A i \in 7..Len(path) : path[i] # "/"
      THEN SubSeq(path, 7, Len(path))
      ELSE <<>>

\* C4: with /items/{n:int64} mounted, a request items/<s> resolves with n
\* bound to the integer s denotes when s is a decimal integer literal, and
\* yields NotFound when it is not, never a coercion error.
C4_Int64ResolvesOrNotFound ==
  (/\ Matched
   /\ Len(routes) = 1
   /\ routes[1].v.TemplatedPathStr
        = <<"/", "i", "t", "e", "m", "s", "/",
            "{", "n", ":", "i", "n", "t", "6", "4", "}">>
   /\ last.httpApiFunc \in MethodsOf(routes[1].v)
   /\ ItemOf(last.route) # <<>>)
    => IF IntegerLiteral(ItemOf(last.route))
       THEN /\ MatchOut.kind = "ok"
            /\ MatchOut.Vars
                 = <<[k |-> <<"n">>,
                      v |-> IntegerValue(ItemOf(last.route))]>>
       ELSE MatchOut.kind = "err" /\ MatchOut.status = 404

\* The unsupported names of a method list, in order.
Unsupported(ms) == SelectSeq(ms, LAMBDA m : m \notin SupportedVerbs)

\* C5: a Mount whose methods hold a name outside GET, POST, PUT, DELETE,
\* PATCH fails inside the call with the error that names the offending
\* method, and no MethodTable ever holds an unsupported name.
C5_UnsupportedMethodRejectedAtMount ==
  /\ \A i \in DOMAIN routes : MethodsOf(routes[i].v) \subseteq SupportedVerbs
  /\ (last.op = "Mount" /\ Unsupported(last.call.acceptedHttpMethods) # <<>>)
       => last.call.raised
            = <<[exc |-> "NotSupportedError",
                 method |-> Unsupported(last.call.acceptedHttpMethods)[1]]>>

\* Mount(/x, h, [GET, FETCH]) has just raised.
C5_Witness ==
  /\ last.op = "Mount"
  /\ last.call.acceptedHttpMethods = <<"GET", "FETCH">>
  /\ last.call.raised # <<>>

\* The routes of the table for the template t: those with the matcher that
\* t compiles to.  Such a route shows the text it was first mounted with,
\* which may be another spelling of t.
RoutesFor(t) == {i \in DOMAIN routes : routes[i].k = Compile(Modules(t))}

\* The last two Mount calls, the second of which is the last operation.
TwoMounts == last.op = "Mount" /\ Len(log) >= 2

First == log[Len(log) - 1]

Second == log[Len(log)]

\* C6: a second Mount(T, h, [GET]) with the arguments of the one before it
\* leaves the route table as it was, with exactly one route for T, whose
\* MethodTable maps GET to h.
C6_MountIdempotent ==
  (/\ TwoMounts
   /\ First = Second
   /\ Second.acceptedHttpMethods = <<"GET">>)
    => /\ routes = pre
       /\ Cardinality(RoutesFor(Second.templatedPathStr)) = 1
       /\ \A i \in RoutesFor(Second.templatedPathStr) :
            Get(routes[i].v.HttpMethodsMap, "GET") = <<Second.functionPtr>>

\* The same Mount(T, h, [GET]) was called twice in a row.
C6_Witness ==
  /\ TwoMounts
  /\ First = Second
  /\ Second.acceptedHttpMethods = <<"GET">>
  /\ Second.raised = <<>>

\* C7: Mount(T, h1, [GET]) followed by Mount(T, h2, [POST]) gives one route
\* for T whose MethodTable holds GET -> h1 and POST -> h2.
C7_MethodUnion ==
  (/\ TwoMounts
   /\ First.templatedPathStr = Second.templatedPathStr
   /\ First.acceptedHttpMethods = <<"GET">>
   /\ Second.acceptedHttpMethods = <<"POST">>)
    => /\ Cardinality(RoutesFor(Second.templatedPathStr)) = 1
       /\ \A i \in RoutesFor(Second.templatedPathStr) :
            /\ Get(routes[i].v.HttpMethodsMap, "GET") = <<First.functionPtr>>
            /\ Get(routes[i].v.HttpMethodsMap, "POST")
                 = <<Second.functionPtr>>

\* Mount(T, h1, [GET]) then Mount(T, h2, [POST]) with different handlers.
C7_Witness ==
  /\ TwoMounts
  /\ First.templatedPathStr = Second.templatedPathStr
  /\ First.acceptedHttpMethods = <<"GET">>
  /\ Second.acceptedHttpMethods = <<"POST">>
  /\ First.functionPtr = "h1"
  /\ Second.functionPtr = "h2"

\* C8: Match always returns a (ResolvedCall, none) or a (none, RouteError)
\* and never raises.  The code raises ValueError when a matched segment does
\* not convert, as for items/42abc on /items/{n:int64}.
C8_MatchNeverRaises == Matched => MatchOut.kind \in {"ok", "err"}

C10_DispatchFollowsMatch ==
  last.op = "HandleFunc"
    => LET m == last.out.match
       IN  /\ m.kind = "err"
             => /\ last.out.responded
                     = <<[status |-> m.status, error |-> m.msg]>>
                /\ last.out.kind = "abort"
                /\ last.out.response.http_code = m.status
                /\ last.out.response.message = m.msg
                /\ last.out.invoked = <<>>
           /\ m.kind = "ok"
             => /\ last.out.invoked
                     = <<[Function |-> m.Function, Vars |-> m.Vars]>>
                /\ last.out.responded = <<>>
                /\ last.out.kind = "return"
                /\ last.out.value = last.out.invoked[1]
           /\ last.out.invoked # <<>> => m.kind = "ok"

\* POST kng/abc-1/details on the GET-only details route was answered 405.
C10_Witness ==
  /\ last.op = "HandleFunc"
  /\ last.route = <<"k", "n", "g", "/", "a", "b", "c", "-", "1", "/",
                    "d", "e", "t", "a", "i", "l", "s">>
  /\ last.httpApiFunc = "POST"
  /\ last.out.kind = "abort"
  /\ last.out.response.http_code = 405
  /\ last.out.invoked = <<>>

\* C11: Match, HandleFunc, GetRoutes and GetRoutesDetailed leave the route
\* table as it was before the call (the routes, their variables and their
\* method tables), whatever the call gives: a resolution, one of the errors
\* 404, 300, 405, or an exception.
C11_LookupsLeaveTableUnchanged ==
  last.op \in {"Match", "HandleFunc", "GetRoutes", "GetRoutesDetailed"}
    => routes = pre

\* A request that ended in 405 on a table with a route.
C11_Witness ==
  /\ last.op = "HandleFunc"
  /\ MatchOut.kind = "err"
  /\ MatchOut.status = METHOD_NOT_ALLOWED
  /\ routes # <<>>
  /\ routes = pre

C13_OneRoutePerMatcher ==
  /\ \A i, j \in DOMAIN routes : routes[i].k = routes[j].k => i = j
  /\ last.op = "Mount" =>
       \A i \in DOMAIN pre :
         Segments(pre[i].v.TemplatedPathStr)
             = Segments(last.call.templatedPathStr) =>
           /\ Len(routes) = Len(pre)
           /\ routes[i].k = pre[i].k
           /\ last.call.raised = <<>> =>
                MethodsOf(routes[i].v)
                  = MethodsOf(pre[i].v)
                      \cup Range(last.call.acceptedHttpMethods)

\* "a/b/" mounted with POST on the table that holds "/a/b" with GET.
C13_Witness ==
  /\ last.op = "Mount"
  /\ last.call.templatedPathStr = <<"a", "/", "b", "/">>
  /\ last.call.acceptedHttpMethods = <<"POST">>
  /\ Len(pre) = 1
  /\ pre[1].v.TemplatedPathStr = <<"/", "a", "/", "b">>
  /\ Len(routes) = 1
  /\ MethodsOf(routes[1].v) = {"GET", "POST"}

\* Tokens alt[i..] match s[p..] up to its end.
RECURSIVE WholeAt(_, _, _, _)
WholeAt(alt, i, s, p) ==
  IF i > Len(alt) THEN p = Len(s) + 1
  ELSE LET t    == alt[i]
           room == Len(s) - p + 1
           maxn == IF t.unb THEN room ELSE Min(t.hi, room)
       IN  \E n \in t.lo..maxn :
             /\ \A j \in 0..(n - 1) : TokHas(t, s[p + j])
             /\ WholeAt(alt, i + 1, s, p + n)

\* The regex matches the whole of s.
Whole(re, s) == \E a \in Range(Alternatives(re)) : WholeAt(a, 1, s, 1)

\* The type that a tag names, whatever the case of its letters; a tag that
\* names none stands for str.
NamedType(tag) ==
  LET l == StrLower(tag)
  IN  IF l = <<"i", "n", "t", "6", "4">> THEN INT64
      ELSE IF l = <<"f", "l", "o", "a", "t", "6", "4">> THEN FLOAT64
      ELSE IF l = <<"u", "u", "i", "d", "4">> THEN UUID4
      ELSE STR

\* The tag of a variable segment {name:tag}.
SegmentTag(seg) == Split(SubSeq(seg, 2, Len(seg) - 1), ":")[2]

\* A path segment is the literal, or matches the regex of the variable's
\* type in full.
SegmentFits(tseg, pseg) ==
  IF tseg[1] = "{"
  THEN Whole(NamedType(SegmentTag(tseg)).regex, pseg)
  ELSE pseg = tseg

\* The path has the segments of the template, one by one.
Fits(t, p) ==
  /\ Len(Segments(t)) = Len(Segments(p))
  /\ \A i \in DOMAIN Segments(t) : SegmentFits(Segments(t)[i], Segments(p)[i])

\* A path without empty segments: no leading, trailing or doubled slash.
Plain(p) == Split(p, "/") = Segments(p)

\* The last two Mount calls were Mount(T, h1, [m]) and Mount(T, h2, [m]) for
\* a supported method m.
Remounted ==
  /\ Len(log) >= 2
  /\ First.templatedPathStr = Second.templatedPathStr
  /\ First.acceptedHttpMethods = Second.acceptedHttpMethods
  /\ Len(Second.acceptedHttpMethods) = 1
  /\ Second.acceptedHttpMethods[1] \in SupportedVerbs

\* C14: after Mount(T, h1, [m]) and then Mount(T, h2, [m]) neither Mount has
\* raised, and Match of a path of T with method m, T's route being the only
\* one whose matcher matches, resolves to h2.
C14_SecondHandlerWins ==
  Remounted =>
    /\ First.raised = <<>>
    /\ Second.raised = <<>>
    /\ ( /\ Matched
         /\ Plain(last.route)
         /\ Fits(Second.templatedPathStr, last.route)
         /\ last.httpApiFunc = Second.acceptedHttpMethods[1]
         /\ Cardinality(Candidates(last.route)) = 1 )
       => /\ MatchOut.kind = "ok"
          /\ MatchOut.Function = Second.functionPtr

\* /x mounted for GET with h1, then with h2; GET x resolves to h2.
C14_Witness ==
  /\ Remounted
  /\ First.functionPtr = "h1"
  /\ Second.functionPtr = "h2"
  /\ last.op = "Match"
  /\ last.route = <<"x">>
  /\ last.httpApiFunc = "GET"
  /\ MatchOut.kind = "ok"
  /\ MatchOut.Function = "h2"

\* The variable segments of a template, in order.
VariableSegments(t) == SelectSeq(Segments(t), LAMBDA seg : seg[1] = "{")

\* The one route whose matcher matches the path of the last Match.
TheCandidate == CHOOSE i \in DOMAIN routes : ReMatch(routes[i].k, last.route)

\* The values that Match gave have the native types of the tags of the
\* template tmpl, in the order of its variables.
TypedAs(tmpl, values) ==
  /\ Len(values) = Len(VariableSegments(tmpl))
  /\ \A j \in DOMAIN values :
       values[j].v.t = NamedType(SegmentTag(VariableSegments(tmpl)[j])).t

\* C15: FromStr gives a type for every tag: the type the tag names when its
\* letters are put in one case, and str for a tag that names none.  So a
\* Mount with supported methods raises nothing whatever the tags of the
\* template are, and the variables of a resolved path have the native types
\* of these types (a variable with an unknown tag is a string).
C15_FromStrTotalCaseInsensitive ==
  /\ last.op = "FromStr" => last.out = NamedType(last.t)
  /\ ( /\ last.op = "Mount"
       /\ Range(last.call.acceptedHttpMethods) \subseteq SupportedVerbs )
     => last.call.raised = <<>>
  /\ (Matched /\ MatchOut.kind = "ok")
     => TypedAs(routes[TheCandidate].v.TemplatedPathStr, MatchOut.Vars)

\* t/42 resolved on the route of /t/{v:foo}: v is the string "42".
C15_Witness ==
  /\ Len(routes) = 1
  /\ routes[1].v.TemplatedPathStr
       = <<"/", "t", "/", "{", "v", ":", "f", "o", "o", "}">>
  /\ last.op = "Match"
  /\ last.route = <<"t", "/", "4", "2">>
  /\ MatchOut.kind = "ok"
  /\ MatchOut.Vars = <<[k |-> <<"v">>, v |-> [t |-> "str", v |-> <<"4", "2">>]]>>

\* C16: the matcher of a route matches a path only when the path fits the
\* route's template in full: as many segments, each literal segment equal,
\* each variable segment matched by the regex of its type from its first to
\* its last character.  A path that no template fits, such as a matching
\* path with more characters or more segments after it, gets 404.
C16_MatchConsumesWholePath ==
  Matched =>
    /\ \A i \in Candidates(last.route) :
         Fits(routes[i].v.TemplatedPathStr, last.route)
    /\ (\A i \in DOMAIN routes :
          ~Fits(routes[i].v.TemplatedPathStr, last.route))
       => /\ MatchOut.kind = "err"
          /\ MatchOut.status = NOT_FOUND

\* A path without its leading and trailing slashes.
RECURSIVE Trimmed(_)
Trimmed(p) ==
  IF p = <<>> THEN p
  ELSE IF Head(p) = "/" THEN Trimmed(Tail(p))
  ELSE IF p[Len(p)] = "/" THEN Trimmed(SubSeq(p, 1, Len(p) - 1))
  ELSE p

\* C17: Match gives one outcome for all the paths that differ in leading or
\* trailing slashes only.
C17_PathSlashesIgnored ==
  Matched =>
    \A q \in U.P :
      Trimmed(q) = Trimmed(last.route) =>
        Match(routes, q, last.httpApiFunc) = MatchOut

\* The handler that a route has for a method.
HandlerOf(r, m) == DictVal(r.HttpMethodsMap, m)

\* C18: a Mount call destroys nothing.  Every route of the table before the
\* call is in the table after it, at its place, with its template, its
\* variables and at least its methods; a method of it has another handler
\* after the call only if the route is the one the call's template compiles
\* to and the method is one of the call's methods.
C18_MountOnlyAdds ==
  last.op = "Mount" =>
    /\ Len(pre) <= Len(routes)
    /\ \A i \in DOMAIN pre :
         /\ routes[i].k = pre[i].k
         /\ routes[i].v.TemplatedPathStr = pre[i].v.TemplatedPathStr
         /\ routes[i].v.TemplatedPathVariables
              = pre[i].v.TemplatedPathVariables
         /\ MethodsOf(pre[i].v) \subseteq MethodsOf(routes[i].v)
         /\ \A m \in MethodsOf(pre[i].v) :
              HandlerOf(routes[i].v, m) # HandlerOf(pre[i].v, m) =>
                /\ m \in Range(last.call.acceptedHttpMethods)
                /\ routes[i].k
                     = Compile(Modules(last.call.templatedPathStr))

\* /x holds GET for h1; Mount(/x, h2, [POST]) adds POST and keeps GET.
C18_Witness ==
  /\ last.op = "Mount"
  /\ last.call.functionPtr = "h2"
  /\ last.call.acceptedHttpMethods = <<"POST">>
  /\ Len(pre) = 1
  /\ pre[1].v.HttpMethodsMap = <<[k |-> "GET", v |-> "h1"]>>
  /\ Len(routes) = 1
  /\ routes[1].v.HttpMethodsMap
       = <<[k |-> "GET", v |-> "h1"], [k |-> "POST", v |-> "h2"]>>

\* The variables of a template with their segment indexes from 0, as the
\* template's non-empty segments are counted.
RECURSIVE IndexedVariables(_, _)
IndexedVariables(segs, i) ==
  IF i > Len(segs) THEN <<>>
  ELSE IF segs[i][1] = "{"
  THEN <<[index |-> i - 1, tag |-> SegmentTag(segs[i]),
          name |-> Split(SubSeq(segs[i], 2, Len(segs[i]) - 1), ":")[1]]>>
         \o IndexedVariables(segs, i + 1)
  ELSE IndexedVariables(segs, i + 1)

\* The path has a segment at the index of the variable, and the regex of
\* the variable's type matches that segment in full.
SegmentOfType(path, var) ==
  /\ var.index + 1 <= Len(Split(path, "/"))
  /\ Whole(NamedType(var.tag).regex, Split(path, "/")[var.index + 1])

\* C20: whenever the matcher of a route matches a path, the path has, for
\* every variable of the route, a segment at the variable's index that the
\* regex of the variable's type matches in full, and so no conversion of
\* Match fails.
C20_MatchedSegmentsConvert ==
  Matched =>
    /\ \A i \in Candidates(last.route) :
         \A j \in DOMAIN IndexedVariables(
                           Segments(routes[i].v.TemplatedPathStr), 1) :
           SegmentOfType(last.route,
                         IndexedVariables(
                           Segments(routes[i].v.TemplatedPathStr), 1)[j])
    /\ MatchOut.kind # "raise"

\* The class of the last Singleton call had an instance before the call.
Initialised == DictHas(last.before, last.cls)

\* C19: once a Singleton class has an instance, Init() and Instance() return
\* that instance, run no constructor and leave the registry alone; the
\* instance of a class is removed or replaced by Delete() and ForceInit() of
\* that class only; a ForceInit() that returns has run the constructor once
\* and returns a new object, which is then the one instance of the class in
\* the registry.
C19_SingletonUntilDeleteOrForceInit ==
  /\ (last.op \in {"Init", "Instance"} /\ Initialised) =>
       /\ last.out = Value(DictVal(last.before, last.cls))
       /\ last.ran = 0
       /\ instances = last.before
  /\ (last.op \in {"Init", "Instance"} /\ ~Initialised /\ last.out.ok) =>
       /\ last.ran = 1
       /\ DictHas(instances, last.cls)
       /\ DictVal(instances, last.cls) = last.out.val
  /\ last.op \in {"Init", "Instance", "ForceInit", "Delete"} =>
       \A i \in DOMAIN last.before :
         \/ last.before[i] \in Range(instances)
         \/ /\ last.op \in {"ForceInit", "Delete"}
            /\ last.cls = last.before[i].k
  /\ (last.op = "ForceInit" /\ last.out.ok) =>
       /\ last.ran = 1
       /\ \A i \in DOMAIN last.before : last.before[i].v # last.out.val
       /\ Cardinality({i \in DOMAIN instances :
                         instances[i].k = last.cls}) = 1
       /\ DictVal(instances, last.cls) = last.out.val

\* Instance() returns the object of the second constructor run, made by a
\* ForceInit() or after a Delete(), and runs no constructor.
C19_Witness ==
  /\ last.op = "Instance"
  /\ last.cls = "ApplicationContext"
  /\ Initialised
  /\ last.out = Value(2)
  /\ last.ran = 0
  /\ constructed = 2

\* The dictionary entry is the variable's: its key is the variable's name,
\* and its value is converted from the segment of ps at the variable's index.
EntryOf(entry, var, ps) ==
  /\ entry.k = var.name
  /\ var.index + 1 <= Len(ps)
  /\ Value(entry.v) = Convert(NamedType(var.tag).t, ps[var.index + 1])

\* values holds one entry per variable of tvars, each taken from ps.
Positioned(tvars, ps, values) ==
  /\ Len(values) = Len(tvars)
  /\ \A j \in DOMAIN values : EntryOf(values[j], tvars[j], ps)

\* C21: when Match resolves, the arguments hold one entry per variable of
\* the matched template, under the variable's name, converted from the
\* segment of the path that stands, among the non-empty segments of the
\* path, where the variable stands among the non-empty segments of the
\* template.  The code indexes the segments of route.split("/"), the empty
\* ones included: x/5//zz on /x/{v:float64}/{s:str} binds s to "".
C21_ArgumentsByPosition ==
  (Matched /\ MatchOut.kind = "ok") =>
    Positioned(
      IndexedVariables(Segments(routes[TheCandidate].v.TemplatedPathStr), 1),
      Segments(last.route), MatchOut.Vars)

\* C22: a Mount that raises the unsupported-method error leaves the route
\* table and every method table as they were before the call.  On a route
\* that exists the code registers the methods that precede the unsupported
\* one before it raises.
C22_FailedMountChangesNothing ==
  (last.op = "Mount" /\ last.call.raised # <<>>) => routes = pre

\* The Mount calls of the log that raised nothing and registered handler h
\* for method m on the route with matcher k.
MountsOf(k, m, h) ==
  {i \in DOMAIN log :
     /\ log[i].raised = <<>>
     /\ log[i].functionPtr = h
     /\ m \in Range(log[i].acceptedHttpMethods)
     /\ Compile(Modules(log[i].templatedPathStr)) = k}

\* The variable names of a template, in order.
NamesOf(t) ==
  [j \in DOMAIN IndexedVariables(Segments(t), 1) |->
     IndexedVariables(Segments(t), 1)[j].name]

\* The last element of a non-empty set of numbers.
Latest(S) == CHOOSE i \in S : \A j \in S : j <= i

\* C23: when Match resolves to a handler, the keys of the arguments are the
\* variable names of the template of the last Mount that registered this
\* handler for the method on the route.  The code keeps the variables of the
\* Mount that created the route: after Mount(/a/{x:str}, h1, [GET]) and
\* Mount(/a/{y:str}, h2, [POST]), POST a/zz calls h2 with the key x.
C23_ArgumentNamesOfOwnTemplate ==
  ( /\ Matched
    /\ MatchOut.kind = "ok"
    /\ MountsOf(routes[TheCandidate].k, last.httpApiFunc,
                MatchOut.Function) # {} )
  => DictKeys(MatchOut.Vars)
       = NamesOf(log[Latest(MountsOf(routes[TheCandidate].k,
                                     last.httpApiFunc,
                                     MatchOut.Function))].templatedPathStr)

\* The digits of 2^63 - 1 and of 2^63.
Int64Max ==
  <<"9", "2", "2", "3", "3", "7", "2", "0", "3", "6", "8", "5", "4", "7",
    "7", "5", "8", "0", "7">>

Int64MinMagnitude ==
  <<"9", "2", "2", "3", "3", "7", "2", "0", "3", "6", "8", "5", "4", "7",
    "7", "5", "8", "0", "8">>

\* a <= b for two runs of digits of one length.
RECURSIVE NotAbove(_, _)
NotAbove(a, b) ==
  IF a = <<>> THEN TRUE
  ELSE IF a[1] = b[1] THEN NotAbove(Tail(a), Tail(b))
  ELSE DigitVal(a[1]) < DigitVal(b[1])

\* The integer lies in [-2^63, 2^63 - 1].
InInt64(v) ==
  \/ Len(v.digits) < Len(Int64Max)
  \/ /\ Len(v.digits) = Len(Int64Max)
     /\ NotAbove(v.digits, IF v.neg THEN Int64MinMagnitude ELSE Int64Max)

\* C24: every integer that Match binds to an int64 variable lies in the
\* signed 64-bit range.  The code converts with int(), which has no range:
\* n/9223372036854775808 resolves on /n/{n:int64} with n = 2^63.
C24_Int64InRange ==
  (Matched /\ MatchOut.kind = "ok") =>
    \A j \in DOMAIN MatchOut.Vars :
      MatchOut.Vars[j].v.t = "int" => InInt64(MatchOut.Vars[j].v)

\* The line of GetRoutesDetailed shows the template text t with method m.
Shows(line, t, m) ==
  /\ Len(line) > Len(t) + 1
  /\ SubSeq(line, 1, Len(t) + 1) = t \o <<" ">>
  /\ m \in Range(SubSeq(line, Len(t) + 2, Len(line)))

\* C25: GetRoutes holds the template text of every Mount that raised
\* nothing, and GetRoutesDetailed holds, for each method of such a Mount, a
\* line that shows the text with the method.  The code lists a route under
\* the text of the Mount that created it: after Mount(/a/b, h1, [GET]) and
\* Mount(a/b/, h1, [POST]) the text a/b/ is listed nowhere.
C25_EnumerationCoversMounts ==
  /\ last.op = "GetRoutes" =>
       \A i \in DOMAIN log :
         log[i].raised = <<>> =>
           log[i].templatedPathStr \in Range(last.out)
  /\ last.op = "GetRoutesDetailed" =>
       \A i \in DOMAIN log :
         log[i].raised = <<>> =>
           \A m \in Range(log[i].acceptedHttpMethods) :
             \E j \in DOMAIN last.out :
               Shows(last.out[j], log[i].templatedPathStr, m)

\* The Mount calls of the log that raised nothing and whose template
\* compiles to the matcher of t.
SpellingsOf(t) ==
  {i \in DOMAIN log :
     /\ log[i].raised = <<>>
     /\ Compile(Modules(log[i].templatedPathStr)) = Compile(Modules(t))}

\* The first element of a non-empty set of numbers.
Earliest(S) == CHOOSE i \in S : \A j \in S : i <= j

\* The text under which the route of t is listed: that of the first Mount
\* that raised nothing on the matcher of t.
ListedText(t) == log[Earliest(SpellingsOf(t))].templatedPathStr

\* C25 (amended): for every Mount that raised nothing, GetRoutes holds the
\* text of the first such Mount on the same matcher, and GetRoutesDetailed
\* holds, for each method of the Mount, a line that shows that text with the
\* method; both list one entry per route.
C25_EnumerationCoversRoutes ==
  /\ last.op \in {"GetRoutes", "GetRoutesDetailed"} =>
       Len(last.out) = Len(routes)
  /\ last.op = "GetRoutes" =>
       \A i \in DOMAIN log :
         log[i].raised = <<>> =>
           ListedText(log[i].templatedPathStr) \in Range(last.out)
  /\ last.op = "GetRoutesDetailed" =>
       \A i \in DOMAIN log :
         log[i].raised = <<>> =>
           \A m \in Range(log[i].acceptedHttpMethods) :
             \E j \in DOMAIN last.out :
               Shows(last.out[j], ListedText(log[i].templatedPathStr), m)

\* /a/b mounted for GET, a/b/ for POST: one line, "/a/b GET,POST".
C25_Witness ==
  /\ last.op = "GetRoutesDetailed"
  /\ Len(log) = 2
  /\ log[1].templatedPathStr = <<"/", "a", "/", "b">>
  /\ log[2].templatedPathStr = <<"a", "/", "b", "/">>
  /\ last.out = << <<"/", "a", "/", "b", " ", "GET", ",", "POST">> >>

\* The threads whose call ran the constructor of cls.
Constructors(cls) ==
  {w \in Workers :
     /\ workers[w].pc \in {"store", "return", "done"}
     /\ workers[w].cls = cls
     /\ workers[w].ran = 1}

\* C26: when threads call Init() and Instance() at the same time on a class
\* without an instance, the constructor of the class runs at most once and
\* all callers get one object.  Between the check and the store of Init
\* nothing keeps a second thread from passing the check: both construct.
C26_ConstructedOnceUnderThreads ==
  /\ \A cls \in Classes : Cardinality(Constructors(cls)) <= 1
  /\ \A v, w \in Workers :
       ( /\ workers[v].pc = "done"
         /\ workers[w].pc = "done"
         /\ workers[v].cls = workers[w].cls )
       => workers[v].out = workers[w].out

(* C27..C29: the metadata of a stored knowledge graph. *)

\* A GetKngTrainModel request for kid k has begun and not yet ended.
Training(k) ==
  \E w \in Workers : workers[w] # Idle /\ workers[w].op = "GetKngTrainModel" /\ workers[w].kid = k

\* The ai_models entry that metadata.json of kid k reports, "" when the
\* file holds no json object.
AiModels(k) ==
  IF store.kng[k].metadata.state = "json" THEN store.kng[k].metadata.ai ELSE ""

\* C27: metadata.json of a kid reports ai_models = "training..." only while
\* a GetKngTrainModel request for that kid is in progress; once every train
\* request for the kid has returned or failed the entry is another one.
C27_TrainingOnlyWhileInProgress ==
  \A k \in Kids : AiModels(k) = "training..." => Training(k)

\* The folders under the mutable store.
Stored == {k \in Kids : store.kng[k].dir}

\* C28: at every moment every folder under the mutable store holds a
\* readable metadata.json, and a GetKngList request that has ended has
\* returned its list, whatever PostKngCreate requests are in progress or
\* have failed.
C28_EveryFolderHasMetadata ==
  /\ \A k \in Stored : store.kng[k].metadata.state = "json"
  /\ last.op = "GetKngList" => last.out.ok

\* The graph that complex.pkl and metadata.json of kid k must describe.
Current(k) == store.kng[k].raw

\* C29: whenever metadata.json of a kid reports ai_models = "ComplEx",
\* complex.pkl exists and was fitted to the raw_graph_data.npy now stored,
\* and knowledge_base and size of the metadata describe that same graph.
C29_ComplExDescribesStoredGraph ==
  \A k \in Kids :
    AiModels(k) = "ComplEx" =>
      /\ store.kng[k].pkl # 0
      /\ store.kng[k].pkl = Current(k)
      /\ store.kng[k].metadata.graph = Current(k)

====
